---- MODULE Spec2Model ----
(***************************************************************************)
(* The data reader cursor of LBANN (DataReader, DataReader_ImageNet) and   *)
(* the mini-batch distribution it computes from an lbann_comm topology.    *)
(*                                                                         *)
(* A DataReader object is a record with the fields of the class; each      *)
(* method is an operator from a record to the set of its outcomes (a set   *)
(* because std::shuffle may leave any permutation and because an integer   *)
(* division by zero is undefined).                                         *)
(*                                                                         *)
(*   Spec       one DataReader_ImageNet driven by arbitrary calls          *)
(*   EpochSpec  num_models * readers_per_model readers configured the way  *)
(*              the parallel I/O layers configure them, each looping       *)
(*              fetch_data; update                                         *)
(*   FetchSpec  Spec with fetch_label                                       *)
(*   LoopSpec   one reader: load, setup, then update() called for ever     *)
(*   IndexSpec  one reader's index sets under load, select_subset_of_data, *)
(*              trim_data_set, swap_used_and_unused_index_sets, setup()    *)
(*              and update(); log keeps the arguments of the last call and *)
(*              whether it threw                                           *)
(*   SubsetSpec IndexSpec with one load and without trim_data_set          *)
(*   DistSpec   one reader: load, one setup with an lbann_comm that is kept *)
(*              in topo, then update and fetch_data                        *)
(***************************************************************************)
EXTENDS Integers, Sequences, FiniteSets, TLC

\* ---------------------------------------------------------------- bounds
\* The largest mini-batch size a reader is constructed with.
MaxBatch == 2
\* The largest number of entries of the image list in Spec and LoopSpec.
MaxData == 4
\* The largest number of entries of the image list in EpochSpec.
MaxEpochData == 8
\* The largest number of processes of a topology handed to setup.
MaxProcs == 2
\* The largest number of parallel readers (over all models) of EpochSpec.
MaxReaders == 3

\* The largest number of entries of the image list in IndexSpec.
MaxIndex == 3

\* The largest number of processes of a job in CommSpec.
MaxWorld == 2
\* The largest number of lbann_comm calls a process of CommSpec makes.
MaxCalls == 2
\* The largest count handed to a primitive that takes one.
MaxCount == 2
\* sizeof(T) of the payload type of the primitives of CommSpec.
SizeofT == 4

\* The strides handed to setup in Spec: below, at and above the batch size.
MaxStride == MaxBatch + 1
\* The <<base_offset, model_offset>> pairs handed to setup in Spec.
Offsets == {<<0, 0>>, <<1, 1>>}
\* The image lists of Spec: those of a reader that shuffles are the short ones.
ImageLists(shuffle_flag) == IF shuffle_flag THEN 0..2 ELSE 0..MaxData

VARIABLES
  image_list,  \* the number of entries of the image list file
  dr,          \* Spec: the DataReader_ImageNet object
  op, ret,     \* Spec: the last call made on dr and what it returned (TRUE: nothing)
  live,        \* Spec: FALSE once the process was killed by a divide error
  comm_given,  \* Spec: whether the last setup was handed an lbann_comm
  topo,        \* EpochSpec: batch size, models, readers and processes per model
  drs,         \* EpochSpec: the DataReader of each reader <<model, rank>>
  pc,          \* EpochSpec: what each reader does next
  log,         \* EpochSpec: what each reader fetched in its current epoch
  comms,       \* CommSpec: the lbann_comm object of each process (by world rank)
  mpi          \* CommSpec: the calls posted to MPI, its groups and communicators

vars == <<image_list, dr, op, ret, live, comm_given, topo, drs, pc, log, comms, mpi>>

\* The null pointer handed to setup when no lbann_comm is given.
NULL == [num_models |-> 0, procs_per_model |-> 0, model_rank |-> 0, rank_in_model |-> 0]

\* ------------------------------------------------------------ arithmetic
\* C++ integer division: truncation towards zero (b # 0).
cdiv(a, b) ==
  IF (a >= 0) = (b > 0) THEN (IF a >= 0 THEN a ELSE -a) \div (IF b > 0 THEN b ELSE -b)
  ELSE -((IF a >= 0 THEN a ELSE -a) \div (IF b > 0 THEN b ELSE -b))

\* What an integer division by zero may leave in the quotient on a build
\* that does not trap.
DivByZeroValues == {-1, 0, 1}

__MIN(a, b) == IF a < b THEN a ELSE b

Range(s) == {s[i] : i \in 1..Len(s)}

\* std::shuffle: any permutation of the sequence.
shuffle(s) ==
  {t \in [1..Len(s) -> Range(s)] :
     \A v \in Range(s) : Cardinality({i \in 1..Len(s) : t[i] = v})
                         = Cardinality({i \in 1..Len(s) : s[i] = v})}

\* ------------------------------------------------------------ lbann_comm
get_num_models(comm) == comm.num_models
get_model_rank(comm) == comm.model_rank
get_rank_in_model(comm) == comm.rank_in_model
get_world_rank_by_num_models(comm, model, rank) == comm.num_models * model + rank
get_world_rank(comm, model, rank) == comm.procs_per_model * model + rank
get_rank_in_world(comm) == get_world_rank(comm, comm.model_rank, comm.rank_in_model)
get_world_master == 0

am_world_master_any(comm) == TRUE
am_world_master(comm) == get_rank_in_world(comm) = get_world_master

\* The topologies of a process: which model it is in and its rank there.
Topologies(maxProcs) ==
  {[num_models |-> q[1], procs_per_model |-> q[2], model_rank |-> q[3], rank_in_model |-> q[4]] :
     q \in {q \in (1..maxProcs) \X (1..maxProcs) \X (0..maxProcs - 1) \X (0..maxProcs - 1) :
              q[1] * q[2] <= maxProcs /\ q[3] < q[1] /\ q[4] < q[2]}}

\* ------------------------------------------------------------ DataReader
DataReader(batchSize, shuffle_flag) ==
  [BatchSize |-> batchSize, CurrentPos |-> 0, m_shuffle |-> shuffle_flag,
   m_stride |-> batchSize, m_base_offset |-> 0, m_model_offset |-> 0,
   m_use_alt_last_mini_batch_size |-> FALSE,
   m_last_mini_batch_threshold |-> 0, m_last_mini_batch_size |-> batchSize,
   m_last_mini_batch_stride |-> 0,
   ShuffledIndices |-> <<>>, m_unused_indices |-> <<>>]

getNumData(d) == Len(d.ShuffledIndices)

position_valid(d) == d.CurrentPos < getNumData(d)

\* The condition under which getBatchSize returns the last mini-batch size.
at_last_mini_batch(d) ==
  d.m_use_alt_last_mini_batch_size /\ d.CurrentPos >= d.m_last_mini_batch_threshold

getBatchSize_always_full(d) == d.BatchSize
getBatchSize(d) ==
  IF at_last_mini_batch(d) THEN d.m_last_mini_batch_size ELSE d.BatchSize

\* The condition under which update advances by the last mini-batch stride.
use_last_mini_batch_stride_ge(d) ==
  d.m_use_alt_last_mini_batch_size
  /\ d.CurrentPos + d.m_stride >= d.m_last_mini_batch_threshold
use_last_mini_batch_stride(d) ==
  d.m_use_alt_last_mini_batch_size
  /\ d.CurrentPos + d.m_stride > d.m_last_mini_batch_threshold

get_next_position(d) ==
  IF use_last_mini_batch_stride(d) THEN d.CurrentPos + d.m_last_mini_batch_stride
  ELSE d.CurrentPos + d.m_stride

\* Where the cursor goes back to at the end of an epoch.
wrap_position_zero(d) == 0
wrap_position_base(d) == d.m_base_offset
wrap_position(d) == d.m_base_offset + d.m_model_offset

reshuffled_always(d) == shuffle(d.ShuffledIndices)

\* The index set after the shuffle of setup and of an epoch's end.
reshuffled(d) == IF d.m_shuffle THEN shuffle(d.ShuffledIndices) ELSE {d.ShuffledIndices}

\* update(): the outcomes [dr, ret].
update(d) ==
  LET moved == [d EXCEPT !.CurrentPos = get_next_position(d)] IN
  IF moved.CurrentPos < getNumData(moved)
  THEN {[dr |-> moved, ret |-> TRUE]}
  ELSE {[dr |-> [moved EXCEPT !.ShuffledIndices = s, !.CurrentPos = wrap_position(moved)],
         ret |-> FALSE] : s \in reshuffled(moved)}

\* ---------------------------------- calculate_multi_model_data_distribution
num_parallel_readers_per_model(d, comm) ==
  cdiv(cdiv(d.m_stride, get_num_models(comm)), d.BatchSize)

\* n / s rounded to the nearest integer, a tie to the even one (rint of the
\* real quotient).
RoundedQuotient(n, s) ==
  LET q == n \div s
      r == n % s
  IN  IF 2 * r > s \/ (2 * r = s /\ q % 2 = 1) THEN q + 1 ELSE q

num_whole_mini_batches_rounded(d) == RoundedQuotient(getNumData(d), d.m_stride)
num_whole_mini_batches_short(d) == cdiv(getNumData(d) - 1, d.m_stride)
\* rint(getNumData() / m_stride): the division is one of ints, rint is given a
\* whole number.
num_whole_mini_batches(d) == cdiv(getNumData(d), d.m_stride)

samples_of_all(d) == getNumData(d)
\* The samples left after the whole mini-batches.
samples_after_whole(d) == getNumData(d) - num_whole_mini_batches(d) * d.m_stride

\* The quotients line 229 may produce: one, or an undefined one when the
\* number of readers is zero.
partial_mini_batch_sizes(d, comm) ==
  LET readers == get_num_models(comm) * num_parallel_readers_per_model(d, comm) IN
  IF readers = 0 THEN DivByZeroValues ELSE {cdiv(samples_after_whole(d), readers)}

\* Whether line 229 can raise the divide error.
may_trap(d, comm) == get_num_models(comm) * num_parallel_readers_per_model(d, comm) = 0

num_readers_at_full_stride_of_model(d, comm) ==
  (get_num_models(comm) - get_model_rank(comm)) * num_parallel_readers_per_model(d, comm)
num_readers_at_full_stride(d, comm) ==
  (get_num_models(comm) - get_model_rank(comm)) * num_parallel_readers_per_model(d, comm)
  - (IF get_rank_in_model(comm) < num_parallel_readers_per_model(d, comm)
     THEN get_rank_in_model(comm) ELSE 0)

num_readers_at_last_stride(d, comm) ==
  get_model_rank(comm) * num_parallel_readers_per_model(d, comm)
  + (IF get_rank_in_model(comm) < num_parallel_readers_per_model(d, comm)
     THEN get_rank_in_model(comm) ELSE 0)

\* The body of the function given the quotient of line 229.
calculate_with(d, comm, partial) ==
  LET remainder == samples_after_whole(d)
                   - partial * get_num_models(comm) * num_parallel_readers_per_model(d, comm)
      world_master_remainder_data == IF am_world_master(comm) THEN remainder ELSE 0
      world_master_remainder_adjustment == IF am_world_master(comm) THEN 0 ELSE remainder
      partial_mini_batch_size == partial + world_master_remainder_data
  IN  [d EXCEPT
        !.m_last_mini_batch_threshold = d.m_stride * num_whole_mini_batches(d),
        !.m_last_mini_batch_size = partial_mini_batch_size,
        !.m_last_mini_batch_stride =
            d.BatchSize * num_readers_at_full_stride(d, comm)
            + partial_mini_batch_size * num_readers_at_last_stride(d, comm)
            + world_master_remainder_adjustment]

calculate_multi_model_data_distribution(d, comm) ==
  {calculate_with(d, comm, partial) : partial \in partial_mini_batch_sizes(d, comm)}

\* setup(base_offset, stride, model_offset, comm): the outcomes [dr, live];
\* live is FALSE when the process was killed by the divide error.
setup(d, base_offset, stride, model_offset, comm) ==
  LET d1 == [d EXCEPT !.m_model_offset = model_offset, !.m_base_offset = base_offset,
                      !.m_stride = stride]
      tail(d2) == {[dr |-> [d2 EXCEPT !.CurrentPos = d2.m_base_offset + d2.m_model_offset,
                                      !.ShuffledIndices = s],
                    live |-> TRUE] : s \in reshuffled(d2)}
  IN  IF comm = NULL THEN tail(d1)
      ELSE (IF may_trap(d1, comm) THEN {[dr |-> d1, live |-> FALSE]} ELSE {})
           \cup UNION {tail([d2 EXCEPT !.m_use_alt_last_mini_batch_size = TRUE]) :
                         d2 \in calculate_multi_model_data_distribution(d1, comm)}

\* ------------------------------------------------------------- index sets
\* std::sort of a vector of ints: the ascending arrangement.
RECURSIVE insert_sorted(_, _)
insert_sorted(s, x) ==
  IF s = <<>> THEN <<x>>
  ELSE IF x <= Head(s) THEN <<x>> \o s
  ELSE <<Head(s)>> \o insert_sorted(Tail(s), x)

\* The sort that leaves the vector as it is.
sort_none(s) == s

RECURSIVE sort(_)
sort(s) == IF s = <<>> THEN <<>> ELSE insert_sorted(sort(Tail(s)), Head(s))

\* The split that appends the entries cut off to m_unused_indices.
split_indices_appending(d, arranged, max_sample_count, firstN) ==
  LET unused == SubSeq(arranged, max_sample_count + 1, Len(arranged))
      used == SubSeq(arranged, 1, max_sample_count)
  IN  [d EXCEPT !.ShuffledIndices = IF firstN THEN used ELSE sort(used),
                !.m_unused_indices =
                    d.m_unused_indices \o (IF firstN THEN unused ELSE sort(unused))]

\* The split of one arrangement of ShuffledIndices after max_sample_count
\* entries, both parts sorted unless firstN.
split_indices(d, arranged, max_sample_count, firstN) ==
  LET unused == SubSeq(arranged, max_sample_count + 1, Len(arranged))
      used == SubSeq(arranged, 1, max_sample_count)
  IN  [d EXCEPT !.ShuffledIndices = IF firstN THEN used ELSE sort(used),
                !.m_unused_indices = IF firstN THEN unused ELSE sort(unused)]

\* select_subset_of_data(max_sample_count, firstN): the readers it may leave.
select_subset_of_data(d, max_sample_count, firstN) ==
  IF max_sample_count = 0 THEN {d}
  ELSE {split_indices(d, arranged, __MIN(max_sample_count, getNumData(d)), firstN) :
          arranged \in IF firstN THEN {d.ShuffledIndices} ELSE shuffle(d.ShuffledIndices)}

\* The swap that only copies the unused indices over the used ones.
swap_copying_unused(d) == [d EXCEPT !.ShuffledIndices = d.m_unused_indices]

\* The swap that also puts the cursor back to 0.
swap_rewinding(d) ==
  [d EXCEPT !.ShuffledIndices = d.m_unused_indices, !.m_unused_indices = d.ShuffledIndices,
            !.CurrentPos = 0]

swap_used_and_unused_index_sets(d) ==
  [d EXCEPT !.ShuffledIndices = d.m_unused_indices, !.m_unused_indices = d.ShuffledIndices]

\* n * h / 2 with the fraction cut off.
rint_halves_truncating(n, h) == cdiv(n * h, 2)

\* use_percentage is modelled in halves: h stands for h / 2.
\* rint(n * h / 2): to the nearest integer, a tie to the even one.
rint_halves(n, h) ==
  LET q == (n * h) \div 2 IN
  IF (n * h) % 2 = 0 THEN q ELSE IF q % 2 = 0 THEN q ELSE q + 1

\* The width of size_t and long in the model (the build's have 64 bits, more
\* than TLC's integers).
SizeBits == 16
\* The largest size_t.
SIZE_MAX == 2^SizeBits - 1

\* The size_t values max_sample_count may get from the double: the value
\* itself, or for a negative one (a conversion that is undefined) the value
\* wrapped modulo 2^SizeBits or 0 (a saturating conversion).
trim_sample_counts(d, h) ==
  LET x == rint_halves(getNumData(d), h) IN
  IF x >= 0 THEN {x} ELSE {SIZE_MAX + 1 + x, 0}

\* The trim that returns the sample count it asked for.
trim_data_set_returning_count(d, h, firstN) ==
  UNION {IF max_sample_count > getNumData(d) \/ max_sample_count > (SIZE_MAX - 1) \div 2
         THEN {[dr |-> d, thrown |-> TRUE, size |-> 0]}
         ELSE {[dr |-> d2, thrown |-> FALSE, size |-> max_sample_count] :
                 d2 \in select_subset_of_data(d, max_sample_count, firstN)} :
           max_sample_count \in trim_sample_counts(d, h)}

\* trim_data_set(use_percentage, firstN): the outcomes [dr, thrown, size];
\* thrown tells that lbann_exception was thrown, size is the value returned
\* otherwise.
trim_data_set(d, h, firstN) ==
  UNION {IF max_sample_count > getNumData(d) \/ max_sample_count > (SIZE_MAX - 1) \div 2
         THEN {[dr |-> d, thrown |-> TRUE, size |-> 0]}
         ELSE {[dr |-> d2, thrown |-> FALSE, size |-> getNumData(d2)] :
                 d2 \in select_subset_of_data(d, max_sample_count, firstN)} :
           max_sample_count \in trim_sample_counts(d, h)}

\* ------------------------------------------------- DataReader_ImageNet
\* load(imageDir, imageListFile) of a list of n images: the indices 0..n-1.
load(d, n) == [d EXCEPT !.ShuffledIndices = [i \in 1..n |-> i - 1]]

\* The number of columns filled when the loop is not cut at the end of the
\* index set.
fetch_count_unclamped(d) ==
  IF ~position_valid(d) THEN 0
  ELSE IF getBatchSize(d) <= 0 THEN 0 ELSE getBatchSize(d)

\* fetch_data / fetch_label: the number of columns filled.
fetch_count(d) ==
  IF ~position_valid(d) THEN 0
  ELSE IF getBatchSize(d) <= 0 THEN 0
  ELSE __MIN(d.CurrentPos + getBatchSize(d), getNumData(d)) - d.CurrentPos

\* The for loop of fetch_data and fetch_label from n on: the n it stops at.
RECURSIVE fetch_loop(_, _, _)
fetch_loop(d, current_batch_size, n) ==
  IF n < d.CurrentPos + current_batch_size /\ n < getNumData(d)
  THEN fetch_loop(d, current_batch_size, n + 1)
  ELSE n

\* fetch_label(Y): the value returned.
fetch_label(d) ==
  IF ~position_valid(d) THEN 0
  ELSE fetch_loop(d, getBatchSize(d), d.CurrentPos) - d.CurrentPos

\* The positions n of ShuffledIndices the loop reads and the column k = n -
\* CurrentPos each of them fills.
fetch_reads(d) ==
  IF ~position_valid(d) THEN {}
  ELSE {[n |-> n, k |-> n - d.CurrentPos] :
          n \in d.CurrentPos .. fetch_loop(d, getBatchSize(d), d.CurrentPos) - 1}

\* ------------------------------------------------- lbann_comm: the object
\* lbann_comm(procs_per_model) on the process world_rank of world_size
\* processes; 0 puts every process in one model.
lbann_comm(world_size, ppm, world_rank) ==
  LET procs == IF ppm = 0 THEN world_size ELSE ppm IN
  [num_models |-> world_size \div procs, procs_per_model |-> procs,
   model_rank |-> world_rank \div procs, rank_in_model |-> world_rank % procs,
   num_model_barriers |-> 0, num_intermodel_barriers |-> 0,
   num_global_barriers |-> 0, bytes_sent |-> 0, bytes_received |-> 0]

get_procs_per_model(comm) == comm.procs_per_model

reset_bytes_counters(comm) == [comm EXCEPT !.bytes_sent = 0, !.bytes_received = 0]

reset_stats_counters(comm) ==
  [comm EXCEPT !.num_model_barriers = 0, !.num_intermodel_barriers = 0,
               !.num_global_barriers = 0, !.bytes_sent = 0, !.bytes_received = 0]

\* The communicators, each its name and the sequence of the world ranks of
\* its members in the order of their ranks in it (rank r is entry r + 1).
Communicator(name, ranks) == [name |-> name, ranks |-> ranks]
COMM_WORLD(comm) ==
  Communicator("COMM_WORLD",
               [i \in 1..get_num_models(comm) * get_procs_per_model(comm) |-> i - 1])
model_comm(comm) ==
  Communicator("model_comm",
               [i \in 1..get_procs_per_model(comm) |->
                  get_world_rank(comm, get_model_rank(comm), i - 1)])
intermodel_comm(comm) ==
  Communicator("intermodel_comm",
               [i \in 1..get_num_models(comm) |->
                  get_world_rank(comm, i - 1, get_rank_in_model(comm))])

\* ---------------------------------------------------------- the MPI calls
\* A call of the MPI layer: what is called, on which communicator, with which
\* root (a rank in it), count and send buffer; peer is the world rank a
\* point-to-point call names.
ANY_SOURCE == -1
NoCall == [kind |-> "none", comm |-> Communicator("none", <<>>), root |-> 0, count |-> 0, buf |-> 0, peer |-> 0]
Broadcast(buf, count, root, comm) ==
  [kind |-> "Broadcast", comm |-> comm, root |-> root, count |-> count, buf |-> buf, peer |-> 0]
Gather(buf, count, root, comm) ==
  [kind |-> "Gather", comm |-> comm, root |-> root, count |-> count, buf |-> buf, peer |-> 0]
Reduce(buf, count, root, comm) ==
  [kind |-> "Reduce", comm |-> comm, root |-> root, count |-> count, buf |-> buf, peer |-> 0]
AllReduce(buf, count, comm) ==
  [kind |-> "AllReduce", comm |-> comm, root |-> 0, count |-> count, buf |-> buf, peer |-> 0]
Barrier(comm) ==
  [kind |-> "Barrier", comm |-> comm, root |-> 0, count |-> 0, buf |-> 0, peer |-> 0]
Send(buf, count, to, comm) ==
  [kind |-> "Send", comm |-> comm, root |-> 0, count |-> count, buf |-> buf, peer |-> to]
ISend(buf, count, to, comm) ==
  [kind |-> "ISend", comm |-> comm, root |-> 0, count |-> count, buf |-> buf, peer |-> to]
Recv(count, from, comm) ==
  [kind |-> "Recv", comm |-> comm, root |-> 0, count |-> count, buf |-> 0, peer |-> from]
IRecv(count, from, comm) ==
  [kind |-> "IRecv", comm |-> comm, root |-> 0, count |-> count, buf |-> 0, peer |-> from]
Wait == [kind |-> "Wait", comm |-> Communicator("none", <<>>), root |-> 0, count |-> 0, buf |-> 0, peer |-> 0]
Comm_create_group(group) ==
  [kind |-> "Comm_create_group", comm |-> Communicator("bcast_group", group),
   root |-> 0, count |-> 0, buf |-> 0, peer |-> 0]

\* ------------------------------------------- lbann_comm: the primitives
\* A primitive is the sequence of its stages: what it adds to the counters,
\* the groups and communicators it allocates and frees, and then the MPI call
\* it makes (NoCall: it returns); a is the record of its arguments.
Stage(sent, received, call) ==
  [sent |-> sent, received |-> received, barrier |-> "none",
   groups |-> 0, communicators |-> 0, call |-> call]
Counted(barrier) ==
  [sent |-> 0, received |-> 0, barrier |-> barrier,
   groups |-> 0, communicators |-> 0, call |-> NoCall]
Allocating(groups, communicators, call) ==
  [sent |-> 0, received |-> 0, barrier |-> "none",
   groups |-> groups, communicators |-> communicators, call |-> call]

\* if (get_rank_in_model() == root) bytes_sent += sizeof(T); else bytes_received += sizeof(T);
broadcast_accounting(comm, root) ==
  IF get_rank_in_model(comm) = root THEN Stage(SizeofT, 0, NoCall) ELSE Stage(0, SizeofT, NoCall)

intermodel_broadcast(comm, a) ==
  <<Stage(0, 0, Broadcast(a.val, 1, a.root, intermodel_comm(comm))),
    broadcast_accounting(comm, a.root)>>

model_broadcast(comm, a) ==
  <<Stage(0, 0, Broadcast(a.val, 1, a.root, model_comm(comm))),
    broadcast_accounting(comm, a.root)>>

\* intermodel_gather(T send, int root)
intermodel_gather(comm, a) ==
  <<Stage(SizeofT, 0, Gather(a.val, 1, a.root, intermodel_comm(comm))),
    Stage(0, 0, NoCall)>>
\* intermodel_gather(T send, std::vector<T>& recv)
intermodel_gather_root(comm, a) ==
  <<Stage(0, 0, Gather(a.val, 1, get_model_rank(comm), intermodel_comm(comm))),
    Stage(0, SizeofT * (get_num_models(comm) - 1), NoCall)>>
\* intermodel_gather(T* send, int count, int root)
intermodel_gather_array(comm, a) ==
  <<Stage(SizeofT * a.count, 0, Gather(a.val, a.count, a.root, intermodel_comm(comm))),
    Stage(0, 0, NoCall)>>
\* intermodel_gather(T* send, int count, T* recv)
intermodel_gather_array_root(comm, a) ==
  <<Stage(0, 0, Gather(a.val, a.count, get_model_rank(comm), intermodel_comm(comm))),
    Stage(0, SizeofT * a.count * (get_num_models(comm) - 1), NoCall)>>

\* intermodel_reduce(T send, int root, mpi::Op op): mpi::Reduce with count 0
intermodel_reduce(comm, a) ==
  <<Stage(SizeofT, 0, Reduce(a.val, 0, a.root, intermodel_comm(comm))),
    Stage(0, 0, NoCall)>>
\* T intermodel_reduce(T send, mpi::Op op)
intermodel_reduce_root(comm, a) ==
  <<Stage(0, 0, Reduce(a.val, 1, get_model_rank(comm), intermodel_comm(comm))),
    Stage(0, SizeofT * (get_num_models(comm) - 1), NoCall)>>
\* model_reduce(T send, int root, mpi::Op op)
model_reduce(comm, a) ==
  <<Stage(SizeofT, 0, Reduce(a.val, 1, a.root, model_comm(comm))),
    Stage(0, 0, NoCall)>>
\* T model_reduce(T send, mpi::Op op)
model_reduce_root(comm, a) ==
  <<Stage(0, 0, Reduce(a.val, 1, get_rank_in_model(comm), model_comm(comm))),
    Stage(0, SizeofT * (get_procs_per_model(comm) - 1), NoCall)>>
\* model_reduce(T* send, int count, int root, mpi::Op op)
model_reduce_array(comm, a) ==
  <<Stage(SizeofT * a.count, 0, Reduce(a.val, a.count, a.root, model_comm(comm))),
    Stage(0, 0, NoCall)>>
\* model_reduce(T* send, int count, T* recv, mpi::Op op)
model_reduce_array_root(comm, a) ==
  <<Stage(0, 0, Reduce(a.val, a.count, get_rank_in_model(comm), model_comm(comm))),
    Stage(0, SizeofT * a.count * (get_procs_per_model(comm) - 1), NoCall)>>

\* T model_allreduce(T send, mpi::Op op)
model_allreduce(comm, a) ==
  <<Stage(SizeofT, 0, AllReduce(a.val, 1, model_comm(comm))),
    Stage(0, SizeofT * (get_procs_per_model(comm) - 1), NoCall)>>
\* model_allreduce(T* send, int count, T* recv, mpi::Op op)
model_allreduce_array(comm, a) ==
  <<Stage(a.count * SizeofT, 0, AllReduce(a.val, a.count, model_comm(comm))),
    Stage(0, a.count * SizeofT * (get_procs_per_model(comm) - 1), NoCall)>>

wait(comm, a) == <<Stage(0, 0, Wait), Stage(0, 0, NoCall)>>

\* send(const T* data, int count, int model, int rank)
send(comm, a) ==
  <<Stage(SizeofT * a.count, 0,
          Send(a.val, a.count, get_world_rank(comm, a.model, a.rank), COMM_WORLD(comm))),
    Stage(0, 0, NoCall)>>
nb_send(comm, a) ==
  <<Stage(SizeofT * a.count, 0,
          ISend(a.val, a.count, get_world_rank(comm, a.model, a.rank), COMM_WORLD(comm))),
    Stage(0, 0, NoCall)>>
\* recv(T* data, int count, int model, int rank)
recv(comm, a) ==
  <<Stage(0, 0, Recv(a.count, get_world_rank(comm, a.model, a.rank), COMM_WORLD(comm))),
    Stage(0, SizeofT * a.count, NoCall)>>
\* recv(T* data, int count)
recv_any(comm, a) ==
  <<Stage(0, 0, Recv(a.count, ANY_SOURCE, COMM_WORLD(comm))),
    Stage(0, SizeofT * a.count, NoCall)>>
nb_recv(comm, a) ==
  <<Stage(0, 0, IRecv(a.count, get_world_rank(comm, a.model, a.rank), COMM_WORLD(comm))),
    Stage(0, SizeofT * a.count, NoCall)>>
\* nb_recv(T* data, int count, lbann_mpi_req<T>& req)
nb_recv_any(comm, a) ==
  <<Stage(0, 0, IRecv(a.count, ANY_SOURCE, COMM_WORLD(comm))),
    Stage(0, SizeofT * a.count, NoCall)>>

\* The ranks of the group of broadcast: root, then dests.
bcast_ranks(a) == <<a.root>> \o a.dests

\* create_group: world_group and g are allocated, neither is freed.
create_group(ranks) == Allocating(2, 0, NoCall)

\* mpi::Translate(mpi::COMM_WORLD, root, bcast_comm): the first rank of
\* bcast_comm that is the world rank root.
Translate(world_rank, into) ==
  (CHOOSE i \in 1..Len(into) :
     into[i] = world_rank /\ \A j \in 1..i - 1 : into[j] # world_rank) - 1

\* broadcast(T* data, int count, std::vector<int>& dests, int root)
broadcast(comm, a) ==
  <<[create_group(bcast_ranks(a)) EXCEPT !.call = Comm_create_group(bcast_ranks(a))],
    Allocating(0, 1, Broadcast(a.val, a.count, Translate(a.root, bcast_ranks(a)),
                               Communicator("bcast_comm", bcast_ranks(a)))),
    Allocating(-1, -1, NoCall)>>

\* The barriers: block until all of the scope arrive, then count.
intermodel_barrier(comm, a) ==
  <<Stage(0, 0, Barrier(intermodel_comm(comm))), Counted("intermodel")>>
model_barrier(comm, a) ==
  <<Stage(0, 0, Barrier(model_comm(comm))), Counted("model")>>
global_barrier(comm, a) ==
  <<Stage(0, 0, Barrier(COMM_WORLD(comm))), Counted("global")>>

\* ------------------------------------------------------------------ Spec
NoTopo == [BatchSize |-> 0, num_models |-> 0, readers |-> 0, procs_per_model |-> 0]

Init ==
  /\ \E b \in 1..MaxBatch, s \in BOOLEAN :
       /\ dr = DataReader(b, s)
       /\ image_list \in ImageLists(s)
  /\ op = "new" /\ ret = TRUE /\ live = TRUE /\ comm_given = FALSE
  /\ topo = NoTopo /\ drs = <<>> /\ pc = <<>> /\ log = <<>>
  /\ comms = <<>> /\ mpi = <<>>

EpochIdle == UNCHANGED <<image_list, topo, drs, pc, log, comms, mpi>>

Load ==
  /\ live
  /\ dr' = load(dr, image_list)
  /\ op' = "load" /\ ret' = TRUE
  /\ UNCHANGED <<live, comm_given>> /\ EpochIdle

Setup ==
  /\ live
  /\ \E offsets \in Offsets, stride \in 1..MaxStride,
        comm \in {NULL} \cup Topologies(MaxProcs) :
       /\ comm_given' = (comm # NULL)
       /\ \E o \in setup(dr, offsets[1], stride, offsets[2], comm) :
            dr' = o.dr /\ live' = o.live
  /\ op' = "setup" /\ ret' = TRUE
  /\ EpochIdle

Update ==
  /\ live
  /\ \E o \in update(dr) : dr' = o.dr /\ ret' = o.ret
  /\ op' = "update"
  /\ UNCHANGED <<live, comm_given>> /\ EpochIdle

FetchData ==
  /\ live
  /\ op' = "fetch_data" /\ ret' = fetch_count(dr)
  /\ UNCHANGED <<dr, live, comm_given>> /\ EpochIdle

Next == Load \/ Setup \/ Update \/ FetchData

Spec == Init /\ [][Next]_vars

\* ------------------------------------------------------------- FetchSpec
\* The calls of Spec and fetch_label.
FetchLabel ==
  /\ live
  /\ op' = "fetch_label" /\ ret' = fetch_label(dr)
  /\ UNCHANGED <<dr, live, comm_given>> /\ EpochIdle

FetchNext == Load \/ Setup \/ Update \/ FetchData \/ FetchLabel

FetchSpec == Init /\ [][FetchNext]_vars

\* -------------------------------------------------------------- LoopSpec
\* The caller that loads, sets up once and then calls update() for ever.
LoopNext ==
  \/ op = "new" /\ Load
  \/ op = "load" /\ Setup
  \/ op \in {"setup", "update"} /\ Update

LoopSpec == Init /\ [][LoopNext]_vars /\ WF_vars(Update)

\* ------------------------------------------------------------- EpochSpec
\* The parallel readers of a job: num_models models of readers readers each.
Configs ==
  {[BatchSize |-> b, shuffle |-> s, num_models |-> M, readers |-> R, procs_per_model |-> P] :
     <<b, s, M, R, P>> \in {q \in (1..MaxBatch) \X BOOLEAN \X (1..MaxReaders) \X (1..MaxReaders)
                                  \X (1..MaxReaders + 1) :
                              q[3] * q[4] <= MaxReaders /\ q[5] \in {q[4], q[4] + 1}}}

ReaderIds(t) == (0..t.num_models - 1) \X (0..t.readers - 1)

\* The lbann_comm of reader p = <<model, rank in model>>.
comm_of(t, p) ==
  [num_models |-> t.num_models, procs_per_model |-> t.procs_per_model,
   model_rank |-> p[1], rank_in_model |-> p[2]]

\* What reader p hands to setup: its share of a stride of one mini-batch per reader.
reader_base_offset(t, p) == p[2] * t.BatchSize
reader_model_offset(t, p) == p[1] * t.readers * t.BatchSize
reader_stride(t) == t.BatchSize * t.num_models * t.readers

EpochInit ==
  /\ topo \in Configs
  /\ image_list \in (IF topo.shuffle THEN 0..2 ELSE 0..MaxEpochData)
  /\ drs = [p \in ReaderIds(topo) |-> DataReader(topo.BatchSize, topo.shuffle)]
  /\ pc = [p \in ReaderIds(topo) |-> "load"]
  /\ log = [p \in ReaderIds(topo) |-> <<>>]
  /\ dr = DataReader(1, FALSE)
  /\ op = "new" /\ ret = TRUE /\ live = TRUE /\ comm_given = FALSE
  /\ comms = <<>> /\ mpi = <<>>

SpecIdle == UNCHANGED <<image_list, topo, dr, op, ret, live, comm_given, comms, mpi>>

ReaderLoad(p) ==
  /\ pc[p] = "load"
  /\ drs' = [drs EXCEPT ![p] = load(@, image_list)]
  /\ pc' = [pc EXCEPT ![p] = "setup"]
  /\ UNCHANGED log /\ SpecIdle

ReaderSetup(p) ==
  /\ pc[p] = "setup"
  /\ \E o \in setup(drs[p], reader_base_offset(topo, p), reader_stride(topo),
                   reader_model_offset(topo, p), comm_of(topo, p)) :
       /\ drs' = [drs EXCEPT ![p] = o.dr]
       /\ pc' = [pc EXCEPT ![p] = IF o.live THEN "fetch" ELSE "killed"]
  /\ UNCHANGED log /\ SpecIdle

\* fetch_data at the cursor: the log keeps the position, getBatchSize() and the
\* count returned; the first fetch of an epoch starts the log afresh.
ReaderFetch(p) ==
  /\ pc[p] \in {"fetch", "epoch_end"}
  /\ log' = [log EXCEPT ![p] =
               Append(IF pc[p] = "epoch_end" THEN <<>> ELSE @,
                      [pos |-> drs[p].CurrentPos, size |-> getBatchSize(drs[p]),
                       count |-> fetch_count(drs[p])])]
  /\ pc' = [pc EXCEPT ![p] = "update"]
  /\ UNCHANGED drs /\ SpecIdle

ReaderUpdate(p) ==
  /\ pc[p] = "update"
  /\ \E o \in update(drs[p]) :
       /\ drs' = [drs EXCEPT ![p] = o.dr]
       /\ pc' = [pc EXCEPT ![p] = IF o.ret THEN "fetch" ELSE "epoch_end"]
  /\ UNCHANGED log /\ SpecIdle

EpochNext ==
  \/ \E p \in ReaderIds(topo) : ReaderLoad(p)
  \/ \E p \in ReaderIds(topo) : ReaderSetup(p)
  \/ \E p \in ReaderIds(topo) : ReaderFetch(p)
  \/ \E p \in ReaderIds(topo) : ReaderUpdate(p)

EpochSpec == EpochInit /\ [][EpochNext]_vars

\* -------------------------------------------------------------- DistSpec
\* The caller that loads, sets up once with an lbann_comm (kept in topo) and
\* then updates and fetches.
DistSetup ==
  /\ live
  /\ \E offsets \in Offsets, stride \in 1..MaxStride, comm \in Topologies(MaxProcs) :
       /\ topo' = comm
       /\ \E o \in setup(dr, offsets[1], stride, offsets[2], comm) :
            dr' = o.dr /\ live' = o.live
  /\ comm_given' = TRUE
  /\ op' = "setup" /\ ret' = TRUE
  /\ UNCHANGED <<image_list, drs, pc, log, comms, mpi>>

DistNext ==
  \/ op = "new" /\ Load
  \/ op = "load" /\ DistSetup
  \/ op \in {"setup", "update", "fetch_data"} /\ Update
  \/ op \in {"setup", "update", "fetch_data"} /\ FetchData

DistSpec == Init /\ [][DistNext]_vars

\* ------------------------------------------------------------- IndexSpec
\* The use_percentage values handed to trim_data_set, in halves: -1/2 to 3/2.
Halves == -1..3

\* The image lists of IndexSpec: those of a reader that shuffles are shorter.
IndexLists(shuffle_flag) == IF shuffle_flag THEN 0..MaxIndex - 1 ELSE 0..MaxIndex

IndexInit ==
  /\ \E s \in BOOLEAN :
       /\ dr = DataReader(MaxBatch, s)
       /\ image_list \in IndexLists(s)
  /\ op = "new" /\ ret = TRUE /\ live = TRUE /\ comm_given = FALSE
  /\ topo = NoTopo /\ drs = <<>> /\ pc = <<>> /\ log = <<>>
  /\ comms = <<>> /\ mpi = <<>>

IndexIdle == UNCHANGED <<image_list, live, comm_given, topo, drs, pc, comms, mpi>>

IndexLoad ==
  /\ dr' = load(dr, image_list)
  /\ op' = "load" /\ ret' = TRUE /\ log' = <<>>
  /\ IndexIdle

SelectSubset ==
  /\ \E max_sample_count \in 0..MaxIndex + 1, firstN \in BOOLEAN :
       /\ dr' \in select_subset_of_data(dr, max_sample_count, firstN)
       /\ log' = [max_sample_count |-> max_sample_count, firstN |-> firstN]
  /\ op' = "select_subset_of_data" /\ ret' = TRUE
  /\ IndexIdle

Trim ==
  /\ \E h \in Halves, firstN \in BOOLEAN :
       /\ \E o \in trim_data_set(dr, h, firstN) :
            /\ dr' = o.dr
            /\ ret' = IF o.thrown THEN "lbann_exception" ELSE o.size
            /\ log' = [use_percentage_halves |-> h, firstN |-> firstN,
                        thrown |-> o.thrown]
  /\ op' = "trim_data_set"
  /\ IndexIdle

Swap ==
  /\ dr' = swap_used_and_unused_index_sets(dr)
  /\ op' = "swap_used_and_unused_index_sets" /\ ret' = TRUE /\ log' = <<>>
  /\ IndexIdle

\* setup(): setup(0, BatchSize).
IndexSetup ==
  /\ \E o \in setup(dr, 0, dr.BatchSize, 0, NULL) : dr' = o.dr
  /\ op' = "setup" /\ ret' = TRUE /\ log' = <<>>
  /\ IndexIdle

IndexUpdate ==
  /\ \E o \in update(dr) : dr' = o.dr /\ ret' = o.ret
  /\ op' = "update" /\ log' = <<>>
  /\ IndexIdle

IndexNext == IndexLoad \/ SelectSubset \/ Trim \/ Swap \/ IndexSetup \/ IndexUpdate

IndexSpec == IndexInit /\ [][IndexNext]_vars

\* ------------------------------------------------------------ SubsetSpec
\* The caller that loads once and never trims.
SubsetNext ==
  \/ op = "new" /\ IndexLoad
  \/ op # "new" /\ SelectSubset
  \/ op # "new" /\ Swap
  \/ op # "new" /\ IndexSetup
  \/ op # "new" /\ IndexUpdate

SubsetSpec == IndexInit /\ [][SubsetNext]_vars

\* ------------------------------------------------------------ CursorSpec
\* The caller that changes the index sets of a reader between its setups,
\* updates and fetches.
\* setup with and without the lbann_comm of a job of one process.
CursorSetup ==
  /\ live
  /\ \E offsets \in Offsets, comm \in {NULL} \cup Topologies(1) :
       /\ comm_given' = (comm # NULL)
       /\ \E o \in setup(dr, offsets[1], dr.BatchSize, offsets[2], comm) :
            dr' = o.dr /\ live' = o.live
  /\ op' = "setup" /\ ret' = TRUE
  /\ EpochIdle

CursorNext ==
  \/ live /\ IndexLoad
  \/ live /\ SelectSubset
  \/ live /\ Trim
  \/ live /\ Swap
  \/ CursorSetup
  \/ Update
  \/ FetchData
  \/ FetchLabel

CursorSpec == IndexInit /\ [][CursorNext]_vars

\* -------------------------------------------------------------- CommSpec
\* A job of world_size processes, each with its lbann_comm object comms[p]
\* and with mpi[p], where it stands: the primitive it is in (fn, a), the stage
\* of it and the MPI call it is blocked in, its data buffer, its outstanding
\* non-blocking request, the groups and communicators it holds, how many
\* primitives it has called and the bytes the last one added to the counters.
Jobs ==
  {j \in [world_size : 1..MaxWorld, procs_per_model : 0..MaxWorld] :
     j.procs_per_model = 0 \/ j.world_size % j.procs_per_model = 0}

NoArgs == [val |-> 0, root |-> 0, count |-> 0, model |-> 0, rank |-> 0, dests |-> <<>>]
NoReq == [call |-> NoCall, done |-> FALSE]
NoProc ==
  [at |-> "idle", fn |-> "none", a |-> NoArgs, stage |-> 0, call |-> NoCall,
   buf |-> 0, gathered |-> <<>>, req |-> NoReq, groups |-> 0, communicators |-> 0,
   made |-> 0, sent |-> 0, received |-> 0]

Procs == DOMAIN comms
WorldSize == Cardinality(Procs)
WorldRanks == 0..WorldSize - 1
\* The value a process holds to send: its world rank plus one.
ValueOf(p) == p + 1

Collectives ==
  {"intermodel_broadcast", "model_broadcast", "intermodel_gather",
   "intermodel_gather_root", "intermodel_gather_array",
   "intermodel_gather_array_root", "intermodel_reduce", "intermodel_reduce_root",
   "model_reduce", "model_reduce_root", "model_reduce_array",
   "model_reduce_array_root", "model_allreduce", "model_allreduce_array",
   "intermodel_barrier", "model_barrier", "global_barrier"}
PointToPoint == {"send", "nb_send", "recv", "recv_any", "nb_recv", "nb_recv_any", "wait"}
Primitives == Collectives \cup PointToPoint \cup {"broadcast"}

Plan(fn, comm, a) ==
  CASE fn = "intermodel_broadcast" -> intermodel_broadcast(comm, a)
    [] fn = "model_broadcast" -> model_broadcast(comm, a)
    [] fn = "intermodel_gather" -> intermodel_gather(comm, a)
    [] fn = "intermodel_gather_root" -> intermodel_gather_root(comm, a)
    [] fn = "intermodel_gather_array" -> intermodel_gather_array(comm, a)
    [] fn = "intermodel_gather_array_root" -> intermodel_gather_array_root(comm, a)
    [] fn = "intermodel_reduce" -> intermodel_reduce(comm, a)
    [] fn = "intermodel_reduce_root" -> intermodel_reduce_root(comm, a)
    [] fn = "model_reduce" -> model_reduce(comm, a)
    [] fn = "model_reduce_root" -> model_reduce_root(comm, a)
    [] fn = "model_reduce_array" -> model_reduce_array(comm, a)
    [] fn = "model_reduce_array_root" -> model_reduce_array_root(comm, a)
    [] fn = "model_allreduce" -> model_allreduce(comm, a)
    [] fn = "model_allreduce_array" -> model_allreduce_array(comm, a)
    [] fn = "intermodel_barrier" -> intermodel_barrier(comm, a)
    [] fn = "model_barrier" -> model_barrier(comm, a)
    [] fn = "global_barrier" -> global_barrier(comm, a)
    [] fn = "send" -> send(comm, a)
    [] fn = "nb_send" -> nb_send(comm, a)
    [] fn = "recv" -> recv(comm, a)
    [] fn = "recv_any" -> recv_any(comm, a)
    [] fn = "nb_recv" -> nb_recv(comm, a)
    [] fn = "nb_recv_any" -> nb_recv_any(comm, a)
    [] fn = "wait" -> wait(comm, a)
    [] fn = "broadcast" -> broadcast(comm, a)

\* The arguments a caller may hand to fn: a root that is a rank of the scope,
\* a count from 1 to MaxCount where fn takes one, a model and a rank of the
\* job, a list of distinct destinations other than root.
Distinct(seq) == \A i, j \in 1..Len(seq) : i # j => seq[i] # seq[j]
DestLists(world, root) ==
  {d \in UNION {[1..n -> world \ {root}] : n \in 0..Cardinality(world) - 1} : Distinct(d)}
Args(fn, comm, p) ==
  LET world == 0..get_num_models(comm) * get_procs_per_model(comm) - 1
      roots == CASE fn \in {"intermodel_broadcast", "intermodel_gather",
                            "intermodel_gather_array", "intermodel_reduce"} ->
                      0..get_num_models(comm) - 1
                 [] fn \in {"model_broadcast", "model_reduce", "model_reduce_array"} ->
                      0..get_procs_per_model(comm) - 1
                 [] fn = "broadcast" -> world
                 [] OTHER -> {0}
      counts == IF fn \in {"intermodel_gather_array", "intermodel_gather_array_root",
                           "model_reduce_array", "model_reduce_array_root",
                           "model_allreduce_array", "send", "nb_send", "recv",
                           "recv_any", "nb_recv", "nb_recv_any", "broadcast"}
                THEN 1..MaxCount ELSE {0}
      models == IF fn \in {"send", "nb_send", "recv", "nb_recv"}
                THEN 0..get_num_models(comm) - 1 ELSE {0}
      ranks == IF fn \in {"send", "nb_send", "recv", "nb_recv"}
               THEN 0..get_procs_per_model(comm) - 1 ELSE {0}
  IN {a \in [val : {ValueOf(p)}, root : roots, count : counts, model : models,
             rank : ranks, dests : UNION {DestLists(world, r) : r \in roots}] :
        a.dests \in (IF fn = "broadcast" THEN DestLists(world, a.root) ELSE {<<>>})}

\* The counters of comm after a stage.
Account(comm, st) ==
  [comm EXCEPT !.bytes_sent = @ + st.sent, !.bytes_received = @ + st.received,
               !.num_model_barriers = @ + (IF st.barrier = "model" THEN 1 ELSE 0),
               !.num_intermodel_barriers = @ + (IF st.barrier = "intermodel" THEN 1 ELSE 0),
               !.num_global_barriers = @ + (IF st.barrier = "global" THEN 1 ELSE 0)]

\* The process runs its primitive from stage i on, up to the MPI call that
\* blocks it or to the return: a non-blocking call leaves its request behind,
\* a wait for no request or for a completed one does not block.
RECURSIVE run(_, _, _, _)
run(comm, proc, plan, i) ==
  LET st == plan[i]
      c == Account(comm, st)
      m == [proc EXCEPT !.stage = i, !.groups = @ + st.groups,
                        !.communicators = @ + st.communicators,
                        !.sent = @ + st.sent, !.received = @ + st.received]
  IN CASE st.call.kind = "none" ->
            [comm |-> c, proc |-> [m EXCEPT !.at = "idle", !.call = NoCall]]
       [] st.call.kind \in {"ISend", "IRecv"} ->
            run(c, [m EXCEPT !.req = [call |-> st.call, done |-> FALSE]], plan, i + 1)
       [] st.call.kind = "Wait" /\ (proc.req = NoReq \/ proc.req.done) ->
            run(c, [m EXCEPT !.req = NoReq], plan, i + 1)
       [] OTHER -> [comm |-> c, proc |-> [m EXCEPT !.at = "blocked", !.call = st.call]]

\* The process goes on after the MPI call it was blocked in.
resume(comm, proc) == run(comm, proc, Plan(proc.fn, comm, proc.a), proc.stage + 1)

CommIdle == UNCHANGED <<image_list, dr, op, ret, live, comm_given, topo, drs, pc, log>>

CommInit ==
  /\ image_list = <<>> /\ dr = DataReader(MaxBatch, FALSE) /\ op = "new" /\ ret = TRUE
  /\ live = TRUE /\ comm_given = FALSE /\ topo = NoTopo /\ drs = <<>> /\ pc = <<>>
  /\ log = <<>>
  /\ \E j \in Jobs :
       comms = [p \in 0..j.world_size - 1 |->
                  lbann_comm(j.world_size, j.procs_per_model, p)]
  /\ mpi = [p \in DOMAIN comms |-> NoProc]

\* Process p calls the primitive fn with the arguments a.
Call(p, fn, a) ==
  /\ mpi[p].at = "idle" /\ mpi[p].made < MaxCalls
  /\ fn \in {"nb_send", "nb_recv", "nb_recv_any"} => mpi[p].req = NoReq
  /\ LET now == run(comms[p],
                    [mpi[p] EXCEPT !.fn = fn, !.a = a, !.made = @ + 1,
                                   !.sent = 0, !.received = 0],
                    Plan(fn, comms[p], a), 1)
     IN comms' = [comms EXCEPT ![p] = now.comm] /\ mpi' = [mpi EXCEPT ![p] = now.proc]
  /\ CommIdle

\* Process p resets its counters.
ResetStats(p) ==
  /\ mpi[p].at = "idle"
  /\ comms[p] # reset_stats_counters(comms[p])
  /\ comms' = [comms EXCEPT ![p] = reset_stats_counters(comms[p])]
  /\ UNCHANGED mpi /\ CommIdle

\* ---- the MPI layer
\* A collective completes when every member of its communicator is blocked
\* in it with the same call, root and count; a call that its peers do not
\* match never completes.
CollectiveKinds ==
  {"Broadcast", "Gather", "Reduce", "AllReduce", "Barrier", "Comm_create_group"}

BlockedIn(q, cm) ==
  q \in Procs /\ mpi[q].at = "blocked" /\ mpi[q].call.comm = cm
  /\ mpi[q].call.kind \in CollectiveKinds

Matches(cm) ==
  /\ cm.ranks # <<>> /\ Distinct(cm.ranks)
  /\ \A q \in Range(cm.ranks) : BlockedIn(q, cm)
  /\ \A q, r \in Range(cm.ranks) :
       /\ mpi[q].call.kind = mpi[r].call.kind
       /\ mpi[q].call.root = mpi[r].call.root
       /\ mpi[q].call.count = mpi[r].call.count
  /\ \A q \in Range(cm.ranks) : mpi[q].call.root < Len(cm.ranks)

RECURSIVE SumOfBuffers(_, _)
SumOfBuffers(ranks, i) ==
  IF i > Len(ranks) THEN 0 ELSE mpi[ranks[i]].call.buf + SumOfBuffers(ranks, i + 1)

\* What member q holds when the collective on cm has completed.
Delivered(cm, q) ==
  LET c == mpi[q].call
      root == cm.ranks[c.root + 1]
  IN [mpi[q] EXCEPT
        !.buf = CASE c.kind = "Broadcast" -> mpi[root].call.buf
                  [] c.kind = "Reduce" /\ q = root -> SumOfBuffers(cm.ranks, 1)
                  [] c.kind = "AllReduce" -> SumOfBuffers(cm.ranks, 1)
                  [] OTHER -> @,
        !.gathered = IF c.kind = "Gather" /\ q = root
                     THEN [i \in 1..Len(cm.ranks) |-> mpi[cm.ranks[i]].call.buf]
                     ELSE @]

MpiCollective(cm) ==
  /\ Matches(cm)
  /\ LET after == [q \in Range(cm.ranks) |-> resume(comms[q], Delivered(cm, q))]
     IN /\ comms' = [q \in Procs |-> IF q \in Range(cm.ranks) THEN after[q].comm ELSE comms[q]]
        /\ mpi' = [q \in Procs |-> IF q \in Range(cm.ranks) THEN after[q].proc ELSE mpi[q]]
  /\ CommIdle

\* The sends and the receives a process has pending, in the order it posted
\* them: its outstanding request, then the call it is blocked in.
NoSlot == [slot |-> "none", call |-> NoCall]
Pending(p, kind, nb_kind) ==
  (IF mpi[p].req.call.kind = nb_kind /\ ~mpi[p].req.done
   THEN <<[slot |-> "req", call |-> mpi[p].req.call]>> ELSE <<>>)
  \o (IF mpi[p].at = "blocked" /\ mpi[p].call.kind = kind
      THEN <<[slot |-> "call", call |-> mpi[p].call]>> ELSE <<>>)
FirstWithPeer(pending, peers) ==
  LET I == {i \in 1..Len(pending) : pending[i].call.peer \in peers}
  IN IF I = {} THEN NoSlot ELSE pending[CHOOSE i \in I : \A j \in I : i <= j]
SendTo(p, q) == FirstWithPeer(Pending(p, "Send", "ISend"), {q})
RecvFrom(q, p) == FirstWithPeer(Pending(q, "Recv", "IRecv"), {p, ANY_SOURCE})

\* The pending call in slot of the process of cp completes; a receive leaves
\* data in the buffer.
Complete(cp, slot, receiving, data) ==
  LET proc == [cp.proc EXCEPT !.buf = IF receiving THEN data ELSE @]
  IN IF slot = "req"
     THEN [comm |-> cp.comm, proc |-> [proc EXCEPT !.req.done = TRUE]]
     ELSE resume(cp.comm, proc)

\* The first pending send of p to q meets the first pending receive of q
\* that accepts p; a message longer than the receive takes never arrives.
MpiPointToPoint(p, q) ==
  LET s == SendTo(p, q)
      r == RecvFrom(q, p)
      sent == Complete([comm |-> comms[p], proc |-> mpi[p]], s.slot, FALSE, 0)
      from == IF p = q THEN sent ELSE [comm |-> comms[q], proc |-> mpi[q]]
      received == Complete(from, r.slot, TRUE, s.call.buf)
  IN /\ s # NoSlot /\ r # NoSlot /\ s.call.count <= r.call.count
     /\ comms' = [[comms EXCEPT ![p] = sent.comm] EXCEPT ![q] = received.comm]
     /\ mpi' = [[mpi EXCEPT ![p] = sent.proc] EXCEPT ![q] = received.proc]
     /\ CommIdle

\* The request the process waits for has completed.
MpiWait(p) ==
  /\ mpi[p].at = "blocked" /\ mpi[p].call.kind = "Wait" /\ mpi[p].req.done
  /\ LET now == resume(comms[p], [mpi[p] EXCEPT !.req = NoReq])
     IN comms' = [comms EXCEPT ![p] = now.comm] /\ mpi' = [mpi EXCEPT ![p] = now.proc]
  /\ CommIdle

CommCalls(fns) == \E p \in Procs, fn \in fns : \E a \in Args(fn, comms[p], p) : Call(p, fn, a)
CommResets == \E p \in Procs : ResetStats(p)
MpiCollectives == \E cm \in {mpi[p].call.comm : p \in Procs} : MpiCollective(cm)
MpiPointToPoints == \E p, q \in Procs : MpiPointToPoint(p, q)
MpiWaits == \E p \in Procs : MpiWait(p)

\* The job calls the collectives of the model and inter-model scopes.
CollectiveNext == CommCalls(Collectives) \/ CommResets \/ MpiCollectives
CollectiveSpec == CommInit /\ [][CollectiveNext]_vars

\* The job calls the point-to-point primitives.
PointNext == CommCalls(PointToPoint) \/ CommResets \/ MpiPointToPoints \/ MpiWaits
PointSpec == CommInit /\ [][PointNext]_vars

\* The job calls the broadcast to an arbitrary set of processes.
BroadcastNext == CommCalls({"broadcast"}) \/ MpiCollectives
BroadcastSpec == CommInit /\ [][BroadcastNext]_vars


\* ================================================================ claims
\* The delivered position of an update step of Spec that added x to the cursor.
AdvancedBy(x) ==
  IF ret' THEN dr'.CurrentPos = dr.CurrentPos + x
  ELSE dr.CurrentPos + x >= getNumData(dr)

\* ---- C3 (Spec)
\* C3: an update() that returns false leaves current_position at
\* base_offset + model_offset; one that returns true has moved it by stride or
\* by alt_stride to a position below |used|; after any calls of setup and update.
C3_UpdateResult ==
  [][op' = "update" =>
       IF ret'
       THEN /\ dr'.CurrentPos \in {dr.CurrentPos + dr.m_stride,
                                   dr.CurrentPos + dr.m_last_mini_batch_stride}
            /\ dr'.CurrentPos < getNumData(dr')
       ELSE dr'.CurrentPos = dr'.m_base_offset + dr'.m_model_offset]_vars

\* An epoch that ended with the cursor put back to a position other than 0.
C3_Witness ==
  /\ op = "update" /\ ret = FALSE
  /\ dr.CurrentPos = dr.m_base_offset + dr.m_model_offset /\ dr.CurrentPos > 0
  /\ getNumData(dr) > dr.CurrentPos

\* ---- C4 (LoopSpec)
\* C4: from the state left by setup, calling update() again and again
\* eventually returns false.
C4_EveryEpochEnds ==
  [](((op = "setup" /\ live) => <>(op = "update" /\ ret = FALSE)))

\* ---- C5 (Spec)
\* C5 as stated: in irregular-last-batch mode, where
\* current_position + stride > threshold the next update() advances by alt_stride
\* and getBatchSize() is alt_size; elsewhere update() advances by stride and
\* getBatchSize() is batch_size.
C5_Original ==
  /\ [](dr.m_use_alt_last_mini_batch_size =>
          getBatchSize(dr) =
            IF dr.CurrentPos + dr.m_stride > dr.m_last_mini_batch_threshold
            THEN dr.m_last_mini_batch_size ELSE dr.BatchSize)
  /\ [][(op' = "update" /\ dr.m_use_alt_last_mini_batch_size) =>
          AdvancedBy(IF dr.CurrentPos + dr.m_stride > dr.m_last_mini_batch_threshold
                     THEN dr.m_last_mini_batch_stride ELSE dr.m_stride)]_vars

\* C5 amended: in irregular-last-batch mode update() advances by alt_stride
\* exactly where current_position + stride > threshold (else by stride), and
\* getBatchSize() is alt_size exactly where current_position >= threshold (else
\* batch_size).
C5_AltModeSwitch ==
  /\ [](dr.m_use_alt_last_mini_batch_size =>
          getBatchSize(dr) =
            IF dr.CurrentPos >= dr.m_last_mini_batch_threshold
            THEN dr.m_last_mini_batch_size ELSE dr.BatchSize)
  /\ [][(op' = "update" /\ dr.m_use_alt_last_mini_batch_size) =>
          AdvancedBy(IF dr.CurrentPos + dr.m_stride > dr.m_last_mini_batch_threshold
                     THEN dr.m_last_mini_batch_stride ELSE dr.m_stride)]_vars

\* An update() that took the last stride from below the threshold and landed on
\* a last mini-batch of another size than batch_size.
C5_Witness ==
  /\ op = "update" /\ ret = TRUE
  /\ dr.m_use_alt_last_mini_batch_size
  /\ dr.m_last_mini_batch_stride # dr.m_stride
  /\ dr.CurrentPos - dr.m_last_mini_batch_stride < dr.m_last_mini_batch_threshold
  /\ dr.CurrentPos - dr.m_last_mini_batch_stride + dr.m_stride > dr.m_last_mini_batch_threshold
  /\ dr.CurrentPos >= dr.m_last_mini_batch_threshold
  /\ getBatchSize(dr) # dr.BatchSize

\* ---- C6 (Spec)
\* C6: when the most recent setup was given no topology, update() advances by
\* stride and getBatchSize() is batch_size, whatever the setups before it.
C6_PlainAfterPlainSetup ==
  /\ [](~comm_given => getBatchSize(dr) = dr.BatchSize)
  /\ [][(op' = "update" /\ ~comm_given) => AdvancedBy(dr.m_stride)]_vars

\* ---- C7 (Spec)
\* C7 as stated: setup with a topology leaves
\* threshold = stride * round(total_samples / stride).
C7_Original ==
  (op = "setup" /\ comm_given /\ live) =>
    dr.m_last_mini_batch_threshold = dr.m_stride * RoundedQuotient(getNumData(dr), dr.m_stride)

\* C7 amended: setup with a topology leaves threshold the largest multiple of
\* stride that is at most total_samples (stride * floor(total_samples / stride)).
C7_ThresholdIsFloor ==
  (op = "setup" /\ comm_given /\ live) =>
    /\ dr.m_last_mini_batch_threshold % dr.m_stride = 0
    /\ dr.m_last_mini_batch_threshold <= getNumData(dr)
    /\ getNumData(dr) < dr.m_last_mini_batch_threshold + dr.m_stride

\* A setup with a topology where rounding to nearest would round up.
C7_Witness ==
  /\ op = "setup" /\ comm_given /\ live
  /\ RoundedQuotient(getNumData(dr), dr.m_stride) > getNumData(dr) \div dr.m_stride
  /\ dr.m_last_mini_batch_threshold > 0

\* ---- EpochSpec: what the readers fetched
\* The positions of used that reader p read in the epoch its log is of.
Fetched(p) == UNION {e.pos .. (e.pos + e.count - 1) : e \in Range(log[p])}

\* Every reader has set up.
AllSetUp == \A p \in ReaderIds(topo) : pc[p] \in {"fetch", "update", "epoch_end"}

\* Every reader is at the end of an epoch, its log the whole of it.
AllAtEpochEnd == \A p \in ReaderIds(topo) : pc[p] = "epoch_end"

\* The job of a single model with a single reader.
SingleReader == topo.num_models = 1 /\ topo.readers = 1

RECURSIVE SumOver(_, _)
SumOver(f, S) ==
  IF S = {} THEN 0
  ELSE LET x == CHOOSE y \in S : TRUE IN f[x] + SumOver(f, S \ {x})

\* ---- C1 (EpochSpec)
\* C1: no position of used is fetched by two readers in an epoch: the
\* intervals [current_position, current_position + getBatchSize()) clipped to
\* |used| fetched by different readers are disjoint.
C1_NoOverlap ==
  \A p \in ReaderIds(topo), q \in ReaderIds(topo) :
    p # q => Fetched(p) \cap Fetched(q) = {}

\* ---- C2 (EpochSpec)
\* C2: over an epoch the readers together fetch every position of
\* [0, total_samples), for every total_samples (also below the stride).
C2_NoGap ==
  AllAtEpochEnd => UNION {Fetched(p) : p \in ReaderIds(topo)} = 0..(image_list - 1)

\* ---- C8 (EpochSpec)
\* C8: a single model with a single reader and total_samples not a multiple of
\* batch_size: every epoch is floor(total_samples / batch_size) batches of
\* getBatchSize() = batch_size at 0, batch_size, 2 * batch_size, ... and then one
\* batch at threshold = batch_size * floor(total_samples / batch_size) of
\* getBatchSize() = total_samples mod batch_size.
C8_SingleReaderEpoch ==
  (SingleReader /\ image_list % topo.BatchSize # 0 /\ AllAtEpochEnd) =>
    LET d == drs[<<0, 0>>]
        l == log[<<0, 0>>]
        whole == image_list \div topo.BatchSize
    IN  /\ d.m_last_mini_batch_threshold = whole * topo.BatchSize
        /\ Len(l) = whole + 1
        /\ \A k \in 1..whole :
             l[k] = [pos |-> (k - 1) * topo.BatchSize, size |-> topo.BatchSize,
                     count |-> topo.BatchSize]
        /\ l[whole + 1] = [pos |-> d.m_last_mini_batch_threshold,
                           size |-> image_list % topo.BatchSize,
                           count |-> image_list % topo.BatchSize]

\* The end of such an epoch of at least one whole batch.
C8_Witness ==
  /\ SingleReader /\ image_list % topo.BatchSize # 0 /\ image_list > topo.BatchSize
  /\ AllAtEpochEnd /\ Len(log[<<0, 0>>]) >= 2

\* ---- C9 (EpochSpec)
\* C9: a single model with a single reader and total_samples a positive
\* multiple of batch_size: threshold = total_samples, and in no state of an
\* epoch does getBatchSize() take the last mini-batch's size or update() the
\* last mini-batch's stride.
C9_NeverAltMode ==
  (SingleReader /\ image_list > 0 /\ image_list % topo.BatchSize = 0 /\ AllSetUp) =>
    /\ drs[<<0, 0>>].m_last_mini_batch_threshold = image_list
    /\ ~at_last_mini_batch(drs[<<0, 0>>])
    /\ ~(drs[<<0, 0>>].m_use_alt_last_mini_batch_size
         /\ drs[<<0, 0>>].CurrentPos + drs[<<0, 0>>].m_stride
              > drs[<<0, 0>>].m_last_mini_batch_threshold)
    /\ \A k \in 1..Len(log[<<0, 0>>]) : log[<<0, 0>>][k].size = topo.BatchSize

\* The end of such an epoch of two batches or more.
C9_Witness ==
  /\ SingleReader /\ image_list % topo.BatchSize = 0 /\ AllAtEpochEnd
  /\ Len(log[<<0, 0>>]) >= 2

\* ---- C10 (EpochSpec)
\* C10: the last mini-batch sizes of the num_models * readers_per_model readers
\* add up to total_samples - threshold; the reader of world rank 0 has
\* partial_batch_size + remainder and every other reader partial_batch_size,
\* where partial_batch_size = (total_samples - threshold) div the number of
\* readers and remainder is what that division leaves.
C10_TotalsReconcile ==
  AllSetUp =>
    LET n == topo.num_models * topo.readers
        left == image_list - drs[<<0, 0>>].m_last_mini_batch_threshold
        partial == left \div n
        remainder == left - partial * n
    IN  /\ \A p \in ReaderIds(topo) :
             /\ drs[p].m_last_mini_batch_threshold = drs[<<0, 0>>].m_last_mini_batch_threshold
             /\ drs[p].m_last_mini_batch_size =
                  IF get_rank_in_world(comm_of(topo, p)) = 0 THEN partial + remainder
                  ELSE partial
        /\ Cardinality({p \in ReaderIds(topo) : get_rank_in_world(comm_of(topo, p)) = 0}) = 1
        /\ SumOver([p \in ReaderIds(topo) |-> drs[p].m_last_mini_batch_size], ReaderIds(topo))
             = left

\* Three readers set up with a remainder that the world master absorbs.
C10_Witness ==
  /\ AllSetUp /\ topo.num_models * topo.readers >= 3
  /\ drs[<<0, 0>>].m_last_mini_batch_size
       > drs[<<topo.num_models - 1, topo.readers - 1>>].m_last_mini_batch_size
  /\ drs[<<topo.num_models - 1, topo.readers - 1>>].m_last_mini_batch_size > 0

\* ---- the distribution of a set-up reader of DistSpec, computed from the
\* ---- reader's batch size, stride and index set and from the topology topo
DistSetUp == comm_given /\ live /\ op \in {"setup", "update", "fetch_data"}
DistReaders == (dr.m_stride \div topo.num_models) \div dr.BatchSize
DistIsReader == DistReaders >= 1 /\ topo.rank_in_model < DistReaders
DistCombinedRank == topo.model_rank * DistReaders + topo.rank_in_model
DistRest == Len(dr.ShuffledIndices) - dr.m_stride * (Len(dr.ShuffledIndices) \div dr.m_stride)
DistPartial == DistRest \div (topo.num_models * DistReaders)
DistRemainder == DistRest % (topo.num_models * DistReaders)
DistIsAccountingRank == topo.procs_per_model * topo.model_rank + topo.rank_in_model = 0

\* C11 as stated: the last mini-batch stride of a reader rank is batch_size
\* times the readers of higher or equal combined rank, plus the partial batch
\* size times the readers of lower combined rank, plus the remainder if and
\* only if the rank is the accounting rank.
C11_Original ==
  (DistSetUp /\ DistIsReader) =>
    dr.m_last_mini_batch_stride =
      dr.BatchSize * (topo.num_models * DistReaders - DistCombinedRank)
      + DistPartial * DistCombinedRank
      + (IF DistIsAccountingRank THEN DistRemainder ELSE 0)

\* C11: the last mini-batch stride of a reader rank is batch_size times the
\* readers of higher or equal combined rank, plus the partial batch size times
\* the readers of lower combined rank, plus the remainder if and only if the
\* rank is NOT the accounting rank (the accounting rank has no reader of lower
\* rank, so its stride is batch_size times the number of readers).
C11_LastStride ==
  (DistSetUp /\ DistIsReader) =>
    dr.m_last_mini_batch_stride =
      dr.BatchSize * (topo.num_models * DistReaders - DistCombinedRank)
      + DistPartial * DistCombinedRank
      + (IF DistIsAccountingRank THEN 0 ELSE DistRemainder)

C11_Witness ==
  /\ DistSetUp /\ op = "setup" /\ DistIsReader
  /\ ~DistIsAccountingRank /\ DistRemainder > 0 /\ DistCombinedRank > 0

\* Whether the topology and batch size make the distribution undefined: no
\* parallel reader, or a batch size that does not divide stride / num_models.
DistUndefined ==
  DistReaders = 0 \/ (dr.m_stride \div topo.num_models) % dr.BatchSize # 0

\* C12: a setup with a topology whose parameters make the distribution
\* undefined fails during setup: the reader is never left set up and running
\* with a threshold, last size and last stride computed from them.
C12_InvalidConfigurationRejected ==
  (comm_given /\ op \in {"setup", "update", "fetch_data"} /\ DistUndefined) => ~live

\* ---- what a fetch at the cursor of dr delivers
FetchedAt == op \in {"fetch_data", "fetch_label"}
CountToEnd == __MIN(getBatchSize(dr), Len(dr.ShuffledIndices) - dr.CurrentPos)
ReadsWithinUsed(count) ==
  /\ \A x \in fetch_reads(dr) : dr.CurrentPos <= x.n /\ x.n < Len(dr.ShuffledIndices)
  /\ {x.k : x \in fetch_reads(dr)} = 0..count - 1
  /\ Cardinality(fetch_reads(dr)) = count

Used == dr.ShuffledIndices
Unused == dr.m_unused_indices
UsedSet == Range(dr.ShuffledIndices)
UnusedSet == Range(dr.m_unused_indices)
IsAscending(s) == \A i \in 1..Len(s) - 1 : s[i] < s[i + 1]

\* C14: after a load of an image list of n entries, whatever was called on
\* the reader before, used is 0..n-1 in ascending order, unused is empty, the
\* two are disjoint and hold n indices together.
C14_LoadRebuildsIndexSets ==
  op = "load" =>
    /\ Used = [i \in 1..image_list |-> i - 1]
    /\ Unused = <<>>
    /\ UsedSet \cap UnusedSet = {}
    /\ Len(Used) + Len(Unused) = image_list

\* ---- a step of IndexSpec that is select_subset_of_data(k, firstN) with
\* ---- k at most the number of used indices
SelectedStep(firstN) ==
  /\ op' = "select_subset_of_data"
  /\ log'.firstN = firstN
  /\ log'.max_sample_count <= Len(Used)
FirstNSplit ==
  /\ Used' = SubSeq(Used, 1, log'.max_sample_count)
  /\ Unused' = SubSeq(Used, log'.max_sample_count + 1, Len(Used))
SortedSplit ==
  /\ Len(Used') = log'.max_sample_count
  /\ IsAscending(Used') /\ IsAscending(Unused')
  /\ UsedSet' \cap UnusedSet' = {}
  /\ UsedSet' \cup UnusedSet' = UsedSet

\* C15 as stated: for every 0 <= k <= n, select_subset_of_data(k, firstN =
\* true) leaves in used the first k entries of the previous used in their
\* order and in unused the other n - k in their order.
C15_Original == [][SelectedStep(TRUE) => FirstNSplit]_vars

\* C15: for every 1 <= k <= n, select_subset_of_data(k, firstN = true) leaves
\* in used the first k entries of the previous used in their order and in
\* unused the other n - k in their order; for k = 0 it changes neither used
\* nor unused.
C15_FirstN ==
  [][SelectedStep(TRUE) =>
       IF log'.max_sample_count >= 1 THEN FirstNSplit
       ELSE Used' = Used /\ Unused' = Unused]_vars

C15_Witness ==
  /\ op = "select_subset_of_data" /\ log.firstN
  /\ log.max_sample_count >= 1 /\ Len(Used) = log.max_sample_count
  /\ Len(Unused) >= 1 /\ Used[1] > Unused[1]

\* C16 as stated: for every 0 <= k <= n, select_subset_of_data(k, firstN =
\* false) leaves k used indices, used and unused both ascending and disjoint,
\* and together the indices used held before.
C16_Original == [][SelectedStep(FALSE) => SortedSplit]_vars

\* C16: for every 1 <= k <= n, select_subset_of_data(k, firstN = false)
\* leaves k used indices, used and unused both ascending and disjoint, and
\* together the indices used held before; for k = 0 it changes neither used
\* nor unused.
C16_RandomSubset ==
  [][SelectedStep(FALSE) =>
       IF log'.max_sample_count >= 1 THEN SortedSplit
       ELSE Used' = Used /\ Unused' = Unused]_vars

C16_Witness ==
  /\ op = "select_subset_of_data" /\ ~log.firstN
  /\ log.max_sample_count >= 1 /\ Len(Used) = log.max_sample_count
  /\ Len(Unused) >= 1 /\ Used[1] > Unused[1]

\* C17: after one load of n entries and any calls of select_subset_of_data,
\* swap_used_and_unused_index_sets, setup and update, used and unused are
\* disjoint and hold together the indices 0..n-1.
C17_IndexDomainKept ==
  op # "new" =>
    /\ UsedSet \cap UnusedSet = {}
    /\ UsedSet \cup UnusedSet = 0..image_list - 1

\* ---- a step of IndexSpec that is trim_data_set(h / 2, firstN) with a
\* ---- fraction from 0 to 1, and the sample count it asks for
TrimmedStep ==
  /\ op' = "trim_data_set"
  /\ log'.use_percentage_halves \in 0..2
TrimCount == RoundedQuotient(Len(Used) * log'.use_percentage_halves, 2)
RemovedByStep == UsedSet \ UsedSet'

\* C18 as stated: the indices a successful trim removes from used are in
\* unused no more than before, and unused is as long after the trim as before.
C18_Original ==
  [][TrimmedStep =>
       /\ RemovedByStep \cap UnusedSet' = {}
       /\ Len(Unused') = Len(Unused)]_vars

\* C18: a successful trim that asks for at least one sample leaves that many
\* used indices, returns their number and leaves in unused exactly the indices
\* it removed from used (what unused held before is replaced); a trim that
\* asks for 0 samples changes neither used nor unused.
C18_TrimMovesToUnused ==
  [][TrimmedStep =>
       IF TrimCount >= 1
       THEN /\ Len(Used') = TrimCount /\ ret' = TrimCount
            /\ UsedSet' \subseteq UsedSet
            /\ UnusedSet' = RemovedByStep
            /\ Len(Unused') = Len(Used) - Len(Used')
       ELSE Used' = Used /\ Unused' = Unused /\ ret' = Len(Used)]_vars

C18_Witness ==
  /\ op = "trim_data_set" /\ log.use_percentage_halves = 1
  /\ ret = Len(Used) /\ Len(Used) >= 1
  /\ Len(Unused) >= 1 /\ UsedSet \cap UnusedSet = {}

\* C19: swap_used_and_unused_index_sets always returns true and makes used
\* the previous unused and unused the previous used, each in its order; from
\* every reachable state two swaps give back the used and unused sequences
\* the reader had.
C19_SwapIsInvolution ==
  /\ [](LET twice == swap_used_and_unused_index_sets(swap_used_and_unused_index_sets(dr))
        IN  twice.ShuffledIndices = Used /\ twice.m_unused_indices = Unused)
  /\ [][op' = "swap_used_and_unused_index_sets" =>
          Used' = Unused /\ Unused' = Used /\ ret' = TRUE]_vars

C19_Witness ==
  /\ op = "swap_used_and_unused_index_sets"
  /\ Len(Used) >= 1 /\ Len(Unused) >= 1 /\ Len(Used) # Len(Unused)

\* C20: trim_data_set(1.0, firstN) leaves the set of used indices and the set
\* of unused indices as they were.
C20_FullTrimKeepsMembership ==
  [][(op' = "trim_data_set" /\ log'.use_percentage_halves = 2) =>
       UsedSet' = UsedSet /\ UnusedSet' = UnusedSet]_vars

\* C21: a trim_data_set whose sample count, |used| * fraction rounded, is
\* negative or above |used| throws, and leaves the reader as it was.
C21_TrimRejectsOutOfRange ==
  [][(op' = "trim_data_set" /\ (TrimCount < 0 \/ TrimCount > Len(Used))) =>
       (log'.thrown /\ dr' = dr)]_vars

\* ---- the processes of a job of CommSpec
Returned(p, fn) == mpi[p].at = "idle" /\ mpi[p].fn = fn
ModelsOf(comm) == 0..get_num_models(comm) - 1
RanksOf(comm) == 0..get_procs_per_model(comm) - 1

\* ---- C22 (PointSpec)
\* C22: in every process of a job of P processes num_models is
\* P / procs_per_model, and get_world_rank(model, rank) is
\* procs_per_model * model + rank, which over the models below num_models and
\* the ranks below procs_per_model is one-to-one and onto the world ranks
\* 0..P - 1; every model has exactly procs_per_model processes, and a message
\* sent to (model, rank) is received by the process of that model and rank.
\* With P = 8 and procs_per_model = 4 there are 2 models and
\* get_world_rank(1, 2) = 6.
C22_WorldRankBijection ==
  /\ \A p \in Procs :
       LET comm == comms[p] IN
       /\ get_num_models(comm) * get_procs_per_model(comm) = WorldSize
       /\ \A m \in ModelsOf(comm), r \in RanksOf(comm) :
            /\ get_world_rank(comm, m, r) = get_procs_per_model(comm) * m + r
            /\ get_world_rank(comm, m, r) \in WorldRanks
            /\ \A m2 \in ModelsOf(comm), r2 \in RanksOf(comm) :
                 get_world_rank(comm, m, r) = get_world_rank(comm, m2, r2)
                   => m = m2 /\ r = r2
       /\ \A w \in WorldRanks :
            \E m \in ModelsOf(comm), r \in RanksOf(comm) : get_world_rank(comm, m, r) = w
       /\ \A m \in ModelsOf(comm) :
            Cardinality({q \in Procs : get_model_rank(comms[q]) = m}) =
              get_procs_per_model(comm)
       /\ get_rank_in_world(comm) = p
       /\ (mpi[p].at = "blocked" /\ mpi[p].call.kind = "Send") =>
            LET to == comms[mpi[p].call.peer] IN
            get_model_rank(to) = mpi[p].a.model /\ get_rank_in_model(to) = mpi[p].a.rank
  /\ get_num_models(lbann_comm(8, 4, 6)) = 2
  /\ get_world_rank(lbann_comm(8, 4, 6), 1, 2) = 6

C22_Witness ==
  \E p, q \in Procs :
    /\ p # q /\ get_num_models(comms[p]) >= 2
    /\ Returned(p, "send") /\ mpi[p].a.model = 1
    /\ get_world_rank(comms[p], mpi[p].a.model, mpi[p].a.rank) = q
    /\ Returned(q, "recv_any") /\ mpi[q].buf = ValueOf(p)

\* ---- C23 (CollectiveSpec)
\* The root of the scalar broadcast a process has returned from: the process
\* whose rank in the communicator of the broadcast is the root argument.
BroadcastScope(p) ==
  IF mpi[p].fn = "model_broadcast" THEN model_comm(comms[p]) ELSE intermodel_comm(comms[p])
BroadcastRoot(p) == BroadcastScope(p).ranks[mpi[p].a.root + 1]

\* C23: a process that has returned from model_broadcast or from
\* intermodel_broadcast of a value of sizeof(T) bytes has added sizeof(T) to
\* bytes_sent and nothing to bytes_received if it is the root of the
\* broadcast, and sizeof(T) to bytes_received and nothing to bytes_sent
\* if it is a peer.
C23_BroadcastAccounting ==
  \A p \in Procs :
    (Returned(p, "model_broadcast") \/ Returned(p, "intermodel_broadcast")) =>
      IF p = BroadcastRoot(p)
      THEN mpi[p].sent = SizeofT /\ mpi[p].received = 0
      ELSE mpi[p].sent = 0 /\ mpi[p].received = SizeofT

\* ---- C24 (BroadcastSpec)
\* C24: a process that has returned from broadcast(data, count, dests, root)
\* has added count * sizeof(T) to bytes_sent if it is root and to
\* bytes_received if it is one of dests; the call does not leave both
\* counters as they were.
C24_TransfersCounted ==
  \A p \in Procs :
    Returned(p, "broadcast") =>
      /\ p = mpi[p].a.root => mpi[p].sent = mpi[p].a.count * SizeofT
      /\ p \in Range(mpi[p].a.dests) => mpi[p].received = mpi[p].a.count * SizeofT
      /\ ~(mpi[p].sent = 0 /\ mpi[p].received = 0)

\* ---- C25 (CollectiveSpec)
\* The scope of the scalar reduce process p is in, and the sum of the values
\* its members send.
ReduceScope(p) ==
  IF mpi[p].fn \in {"model_reduce", "model_reduce_root"}
  THEN model_comm(comms[p]) ELSE intermodel_comm(comms[p])
RECURSIVE SumOfValues(_, _)
SumOfValues(ranks, i) ==
  IF i > Len(ranks) THEN 0 ELSE ValueOf(ranks[i]) + SumOfValues(ranks, i + 1)
\* Process p is in the root variant of a reduce and every other member of
\* its scope is in the non-root variant of that reduce, naming p as root.
ReduceIssued(p, root_variant, variant) ==
  /\ mpi[p].at = "blocked" /\ mpi[p].fn = root_variant
  /\ \A q \in Range(ReduceScope(p).ranks) \ {p} :
       /\ mpi[q].at = "blocked" /\ mpi[q].fn = variant
       /\ ReduceScope(p).ranks[mpi[q].a.root + 1] = p

\* C25: when one member of a scope has called the root variant of
\* model_reduce or of intermodel_reduce and every other member the non-root
\* variant naming it, the reduce completes, and the value the root variant
\* returns is the sum of the values sent by all members of the scope.
C25_ReduceDeliversSum ==
  \A p \in Procs :
    /\ ReduceIssued(p, "model_reduce_root", "model_reduce") => Matches(ReduceScope(p))
    /\ ReduceIssued(p, "intermodel_reduce_root", "intermodel_reduce") =>
         Matches(ReduceScope(p))
    /\ (Returned(p, "model_reduce_root") \/ Returned(p, "intermodel_reduce_root")) =>
         mpi[p].buf = SumOfValues(ReduceScope(p).ranks, 1)

\* ---- C26 (CollectiveSpec)
\* The collective a primitive belongs to (its root and non-root variants are
\* one collective), and the root a caller of it names: its own rank in the
\* scope in a root variant, the root argument otherwise.
RootVariants ==
  {"intermodel_gather_root", "intermodel_gather_array_root", "intermodel_reduce_root",
   "model_reduce_root", "model_reduce_array_root"}
CollectiveOf(fn) ==
  CASE fn = "intermodel_gather_root" -> "intermodel_gather"
    [] fn = "intermodel_gather_array_root" -> "intermodel_gather_array"
    [] fn = "intermodel_reduce_root" -> "intermodel_reduce"
    [] fn = "model_reduce_root" -> "model_reduce"
    [] fn = "model_reduce_array_root" -> "model_reduce_array"
    [] OTHER -> fn
NamedRoot(p) ==
  IF mpi[p].fn \in RootVariants
  THEN IF mpi[p].call.comm.name = "model_comm"
       THEN get_rank_in_model(comms[p]) ELSE get_model_rank(comms[p])
  ELSE mpi[p].a.root
\* Every member of the communicator cm has issued the same collective on it,
\* with the same root and count, and has not returned from it.
SameCollectiveIssued(cm) ==
  /\ cm.ranks # <<>>
  /\ \A q \in Range(cm.ranks) : BlockedIn(q, cm)
  /\ \A q, r \in Range(cm.ranks) :
       /\ CollectiveOf(mpi[q].fn) = CollectiveOf(mpi[r].fn)
       /\ NamedRoot(q) = NamedRoot(r)
       /\ mpi[q].a.count = mpi[r].a.count
\* Process p leaves the MPI call it is blocked in.
Unblocks(p) ==
  mpi[p].at = "blocked" /\ (mpi'[p].at = "idle" \/ mpi'[p].stage # mpi[p].stage)

\* C26: a process blocked in a collective (broadcast, reduce, all-reduce,
\* gather, barrier) leaves it only in a step before which every member of
\* the scope had issued the matching call, and whenever every member of a
\* scope has issued the same collective the collective can complete (so that
\* every call returns); a collective that some member has not issued stays
\* blocked.
C26_CollectivesBlockUntilMatched ==
  /\ [](\A p \in Procs : SameCollectiveIssued(mpi[p].call.comm) => Matches(mpi[p].call.comm))
  /\ [][\A p \in Procs : Unblocks(p) => Matches(mpi[p].call.comm)]_vars

\* ---- C27 (CollectiveSpec)
Counters ==
  {"num_model_barriers", "num_intermodel_barriers", "num_global_barriers",
   "bytes_sent", "bytes_received"}
\* The MPI calls of a primitive, in order.
CallsOf(plan) == [i \in 1..Len(plan) |-> plan[i].call]
\* A step in which process p does nothing but change its counters.
ResetStep(p) == mpi'[p] = mpi[p] /\ comms'[p] # comms[p]

\* C27: no counter is ever negative and no step lowers a counter of a
\* process, except reset_stats_counters, which sets all five to 0; and the
\* MPI calls of the primitive a process is in or has returned from (which
\* communicator, root, peer, count and data) are those it would make with
\* all counters 0.
C27_CountersMonotonic ==
  /\ [](\A p \in Procs :
          /\ \A c \in Counters : comms[p][c] >= 0
          /\ mpi[p].fn # "none" =>
               CallsOf(Plan(mpi[p].fn, comms[p], mpi[p].a)) =
                 CallsOf(Plan(mpi[p].fn, reset_stats_counters(comms[p]), mpi[p].a)))
  /\ [][\A p \in Procs :
          /\ (\E c \in Counters : comms'[p][c] < comms[p][c]) => ResetStep(p)
          /\ ResetStep(p) => \A c \in Counters : comms'[p][c] = 0]_vars

C27_Witness ==
  \E p \in Procs :
    /\ Returned(p, "model_barrier") /\ mpi[p].made = MaxCalls
    /\ \A c \in Counters : comms[p][c] = 0

\* ---- C28 (BroadcastSpec)
\* C28: a process holds no group and no communicator except inside a call
\* of broadcast(data, count, dests, root): before its first call and after
\* every return none that the call created remains allocated; and a process
\* that has returned from the call holds the value root sent.
C28_BroadcastGroupScoped ==
  \A p \in Procs :
    /\ mpi[p].at = "idle" => mpi[p].groups = 0 /\ mpi[p].communicators = 0
    /\ Returned(p, "broadcast") => mpi[p].buf = ValueOf(mpi[p].a.root)

\* ---- C29 (IndexSpec)
\* The sequences a and b hold the same elements, each as often.
SameElements(a, b) ==
  /\ Len(a) = Len(b)
  /\ \A v \in Range(a) \cup Range(b) :
       Cardinality({i \in 1..Len(a) : a[i] = v}) = Cardinality({i \in 1..Len(b) : b[i] = v})

\* C29: setup and update never change unused, and change used at most into
\* a permutation of itself; used stays exactly as it was when the reader does
\* not shuffle and when update returns true.
C29_CursorOperationsKeepIndexSets ==
  [][(op' = "setup" \/ op' = "update") =>
       /\ Unused' = Unused
       /\ SameElements(Used', Used)
       /\ (~dr.m_shuffle \/ (op' = "update" /\ ret' = TRUE)) => Used' = Used]_vars

C29_Witness ==
  /\ op = "update" /\ ret = FALSE /\ dr.m_shuffle
  /\ Len(Used) >= 2 /\ ~IsAscending(Used) /\ Len(Unused) >= 1

\* ---- C30 (CursorSpec)
LastMiniBatchFields ==
  {"m_last_mini_batch_threshold", "m_last_mini_batch_size", "m_last_mini_batch_stride"}
CursorFields == {"CurrentPos", "m_stride", "m_base_offset", "m_model_offset"}
Kept(fields) == \A f \in fields : dr'[f] = dr[f]

\* C30: select_subset_of_data, trim_data_set, swap_used_and_unused_index_sets,
\* fetch_data and fetch_label leave the last-mini-batch threshold, size and
\* stride and the cursor (CurrentPos, m_stride, m_base_offset, m_model_offset)
\* as they were; update changes none of them but CurrentPos; a step that
\* changes any of them is a setup or an update.
C30_CursorFieldsKept ==
  [][/\ op' \in {"select_subset_of_data", "trim_data_set",
                 "swap_used_and_unused_index_sets", "fetch_data", "fetch_label"} =>
          Kept(LastMiniBatchFields \cup CursorFields)
     /\ op' = "update" => Kept((LastMiniBatchFields \cup CursorFields) \ {"CurrentPos"})
     /\ ~Kept(LastMiniBatchFields \cup CursorFields) => op' \in {"setup", "update"}]_vars

\* After a trim the threshold and the cursor computed for the larger used
\* sequence are still there.
C30_Witness ==
  /\ op = "trim_data_set" /\ live
  /\ dr.m_last_mini_batch_threshold > Len(Used) /\ dr.CurrentPos > 0
  /\ Len(Unused) >= 1

\* ---- C31 (IndexSpec)
\* C31 as stated: a trim with a fraction from 0 to 1 that succeeds on n used
\* indices returns round(n * fraction) and leaves that many used indices.
C31_Original ==
  [][(TrimmedStep /\ ~log'.thrown) => ret' = TrimCount /\ Len(Used') = TrimCount]_vars

\* C31: a trim with a fraction from 0 to 1 that succeeds on n used indices
\* returns the number of used indices it leaves, which is round(n * fraction)
\* when that is at least 1 and n when it is 0.
C31_TrimReturnsUsedCount ==
  [][(TrimmedStep /\ ~log'.thrown) =>
       /\ ret' = Len(Used')
       /\ Len(Used') = IF TrimCount >= 1 THEN TrimCount ELSE Len(Used)]_vars

C31_Witness ==
  /\ op = "trim_data_set" /\ log.use_percentage_halves = 0 /\ ~log.thrown
  /\ Len(Used) >= 2 /\ ret = Len(Used)

\* ---- C32 (EpochSpec)
\* The number of update() calls of the epoch reader p has just ended: one
\* after each fetch of its log, the last of them the one that returned false.
StepsOfEpoch(p) == Len(log[p])

\* C32: the readers of a job end their epochs on the same step: two readers
\* that are each at the end of an epoch have called update() equally often in
\* it, so that on every step update() returns false on all of them or true
\* on all of them.
C32_EpochsEndTogether ==
  \A p, q \in ReaderIds(topo) :
    (pc[p] = "epoch_end" /\ pc[q] = "epoch_end") => StepsOfEpoch(p) = StepsOfEpoch(q)

\* ---- C33 (EpochSpec)
\* C33: once the readers of a job with stride = batch_size * num_models *
\* readers_per_model have set up, on every reader the threshold is at most
\* total_samples and less than a stride below it, the partial mini-batch size
\* of line 229 is at least 0 and less than the batch size, the remainder it
\* leaves is at least 0 and less than the number of readers, and the last
\* mini-batch size is the partial size, plus the remainder on the world master.
C33_PartialBatchBounds ==
  AllSetUp =>
    \A p \in ReaderIds(topo) :
      LET d == drs[p]
          n == topo.num_models * topo.readers
          threshold == d.m_last_mini_batch_threshold
      IN  /\ d.m_stride = topo.BatchSize * n
          /\ threshold <= image_list /\ image_list < threshold + d.m_stride
          /\ \A partial \in partial_mini_batch_sizes(d, comm_of(topo, p)) :
               LET remainder == image_list - threshold - partial * n IN
               /\ 0 <= partial /\ partial < d.BatchSize
               /\ 0 <= remainder /\ remainder < n
               /\ d.m_last_mini_batch_size =
                    partial + (IF am_world_master(comm_of(topo, p)) THEN remainder ELSE 0)

\* Readers set up over more than a stride of samples, with a remainder for
\* the world master and nothing for the last reader.
C33_Witness ==
  /\ AllSetUp /\ topo.num_models * topo.readers >= 2
  /\ drs[<<0, 0>>].m_last_mini_batch_threshold >= drs[<<0, 0>>].m_stride
  /\ drs[<<0, 0>>].m_last_mini_batch_size > 0
  /\ drs[<<topo.num_models - 1, topo.readers - 1>>].m_last_mini_batch_size = 0

\* ---- C34 (Spec)
\* A step that is a setup or an update of a live reader with at least one
\* used index.
CursorStep == op' \in {"setup", "update"} /\ live' /\ getNumData(dr') >= 1
\* An update that ended the epoch and put the cursor back.
Wraparound == op' = "update" /\ ret' = FALSE /\ live' /\ getNumData(dr') >= 1

\* C34 as stated: after every setup and after every update CurrentPos is
\* below the number of used indices, and a fetch after a wraparound does not
\* return 0.
C34_Original ==
  [][/\ CursorStep => dr'.CurrentPos < getNumData(dr')
     /\ Wraparound => fetch_count(dr') > 0]_vars

\* C34: after an update that returned true CurrentPos is below the number of
\* used indices; after a setup and after an update that returned false it is
\* m_base_offset + m_model_offset, which is below the number of used indices
\* exactly when the offsets are; a fetch after a wraparound returns 0 exactly
\* when the position is not valid or getBatchSize() is not positive.
C34_PositionValidWithinOffsets ==
  [][/\ CursorStep =>
          IF op' = "update" /\ ret' = TRUE
          THEN dr'.CurrentPos < getNumData(dr')
          ELSE /\ dr'.CurrentPos = dr'.m_base_offset + dr'.m_model_offset
               /\ (dr'.CurrentPos < getNumData(dr'))
                    = (dr'.m_base_offset + dr'.m_model_offset < getNumData(dr'))
     /\ Wraparound =>
          ((fetch_count(dr') = 0)
             = (dr'.m_base_offset + dr'.m_model_offset >= getNumData(dr')
                \/ getBatchSize(dr') <= 0))]_vars

\* An epoch that ended with the cursor put back beyond the used indices.
C34_Witness ==
  /\ op = "update" /\ ret = FALSE /\ live
  /\ getNumData(dr) >= 1 /\ dr.CurrentPos >= getNumData(dr)
  /\ dr.CurrentPos = dr.m_base_offset + dr.m_model_offset

====
